---- MODULE Spec2Model ----
(***************************************************************************)
(* Model of fast-float-compare (src/src/lib.rs): the Float decomposition   *)
(* of an f64 into (mantissa, exponent, sign), its reconstruction, and the  *)
(* total order defined on it.                                              *)
(*                                                                         *)
(* A 64-bit word (an f64 bit pattern, a u64) is modelled as the set of the *)
(* positions of its 1 bits, a subset of 0..63: bit 63 is the sign, bits    *)
(* 62..52 the exponent field, bits 51..0 the fraction.  Shifts, masks and  *)
(* ors act on that set exactly as the machine operations act on the word.  *)
(* The i16 exponent is an integer.                                         *)
(***************************************************************************)
EXTENDS Integers, FiniteSets, Sequences

(*************************** bounds of the inputs **************************)

\* exponent fields within ExpEdge of either end of the 11-bit range
ExpEdge == 1
\* number of fraction bits that vary freely at the low end and at the high end
FracBits == 1

(****************************** 64-bit words *******************************)

Max(S) == CHOOSE m \in S : \A k \in S : k <= m

\* w >> n on u64
Shr(w, n) == {i - n : i \in {j \in w : j >= n}}

\* w << n on u64 (bits shifted past bit 63 are lost)
Shl(w, n) == {i + n : i \in {j \in w : j + n <= 63}}

\* v & w
BitAnd(v, w) == v \cap w

\* v | w
BitOr(v, w) == v \cup w

\* v ^ w
BitXor(v, w) == (v \ w) \cup (w \ v)

\* the literal 0x7ff
Mask7ff == 0..10

\* the literal 0xfffffffffffff
MaskFraction == 0..51

\* the literal 0x10000000000000
ImplicitBit == {52}

\* the value 1u64 << 63
SignBit == Shl({0}, 63)

RECURSIVE ToInt(_)
\* the numeric value of a word that fits an integer (the `as i16` cast of a
\* value below 2^11)
ToInt(w) ==
    IF w = {} THEN 0
    ELSE LET i == Max(w) IN 2 ^ i + ToInt(w \ {i})

\* the `as u64` cast of a non-negative i16
ToU64(n) == {i \in 0..14 : (n \div (2 ^ i)) % 2 = 1}

(******************************** orderings ********************************)

\* std::cmp::Ordering::reverse
Reverse(ord) ==
    CASE ord = "Less" -> "Greater"
      [] ord = "Greater" -> "Less"
      [] OTHER -> "Equal"

\* u64::cmp
U64Cmp(v, w) ==
    IF v = w THEN "Equal"
    ELSE IF Max(BitXor(v, w)) \in w THEN "Less" ELSE "Greater"

\* i16::cmp
I16Cmp(m, n) ==
    IF m < n THEN "Less" ELSE IF m > n THEN "Greater" ELSE "Equal"

\* bool::cmp (false < true)
BoolCmp(p, q) ==
    IF p = q THEN "Equal" ELSE IF q THEN "Less" ELSE "Greater"

(********************************** Float **********************************)

None == [some |-> FALSE]

Some(v) == [some |-> TRUE, val |-> v]

\* f64::is_nan
is_nan(value) == (52..62) \subseteq value /\ BitAnd(value, MaskFraction) # {}

\* f64::is_infinite
is_infinite(value) == value \ {63} = 52..62

new(mantissa, exponent, sign) ==
    [mantissa |-> mantissa, exponent |-> exponent, sign |-> sign]

\* from_f64 that forgets the NaN test
from_f64_nonan(value) ==
    IF is_infinite(value) THEN None
    ELSE LET bits == value
             sign == Shr(bits, 63) = {}
             exponent == ToInt(BitAnd(Shr(bits, 52), Mask7ff))
             mantissa == IF exponent = 0
                         THEN Shl(BitAnd(bits, MaskFraction), 1)
                         ELSE BitOr(BitAnd(bits, MaskFraction), ImplicitBit)
         IN Some(new(mantissa, exponent, sign))

\* from_f64 that forgets the infinity test
from_f64_noinf(value) ==
    IF is_nan(value) THEN None
    ELSE LET bits == value
             sign == Shr(bits, 63) = {}
             exponent == ToInt(BitAnd(Shr(bits, 52), Mask7ff))
             mantissa == IF exponent = 0
                         THEN Shl(BitAnd(bits, MaskFraction), 1)
                         ELSE BitOr(BitAnd(bits, MaskFraction), ImplicitBit)
         IN Some(new(mantissa, exponent, sign))

\* from_f64 whose fraction mask is one hex digit short (0x7ffffffffffff)
from_f64_shortmask(value) ==
    IF is_nan(value) \/ is_infinite(value) THEN None
    ELSE LET bits == value
             sign == Shr(bits, 63) = {}
             exponent == ToInt(BitAnd(Shr(bits, 52), Mask7ff))
             mantissa == IF exponent = 0
                         THEN Shl(BitAnd(bits, 0..50), 1)
                         ELSE BitOr(BitAnd(bits, 0..50), ImplicitBit)
         IN Some(new(mantissa, exponent, sign))

\* from_f64 that does not shift the subnormal fraction
from_f64_noshift(value) ==
    IF is_nan(value) \/ is_infinite(value) THEN None
    ELSE LET bits == value
             sign == Shr(bits, 63) = {}
             exponent == ToInt(BitAnd(Shr(bits, 52), Mask7ff))
             mantissa == IF exponent = 0
                         THEN BitAnd(bits, MaskFraction)
                         ELSE BitOr(BitAnd(bits, MaskFraction), ImplicitBit)
         IN Some(new(mantissa, exponent, sign))

from_f64(value) ==
    IF is_nan(value) \/ is_infinite(value) THEN None
    ELSE LET bits == value
             sign == Shr(bits, 63) = {}
             exponent == ToInt(BitAnd(Shr(bits, 52), Mask7ff))
             mantissa == IF exponent = 0
                         THEN Shl(BitAnd(bits, MaskFraction), 1)
                         ELSE BitOr(BitAnd(bits, MaskFraction), ImplicitBit)
         IN Some(new(mantissa, exponent, sign))

\* to_f64 that takes exponent 0 for a normal number
to_f64_strict(self) ==
    LET exponent == self.exponent
        sign_bit == IF ~self.sign THEN SignBit ELSE {}
        mantissa_bits == IF exponent < 0
                         THEN BitAnd(Shr(self.mantissa, 1), MaskFraction)
                         ELSE BitAnd(self.mantissa, MaskFraction)
        exp_bits == IF exponent < 0 THEN {} ELSE Shl(ToU64(exponent), 52)
    IN BitOr(BitOr(sign_bit, exp_bits), mantissa_bits)

to_f64(self) ==
    LET exponent == self.exponent
        sign_bit == IF ~self.sign THEN SignBit ELSE {}
        mantissa_bits == IF exponent <= 0
                         THEN BitAnd(Shr(self.mantissa, 1), MaskFraction)
                         ELSE BitAnd(self.mantissa, MaskFraction)
        exp_bits == IF exponent <= 0 THEN {} ELSE Shl(ToU64(exponent), 52)
    IN BitOr(BitOr(sign_bit, exp_bits), mantissa_bits)

\* cmp that does not reverse the mantissa order of negative numbers
cmp_mantissa_unreversed(self, other) ==
    LET signOrd == BoolCmp(self.sign, other.sign)
        expOrd == I16Cmp(self.exponent, other.exponent)
    IN IF signOrd = "Equal"
       THEN IF self.sign
            THEN IF expOrd = "Equal"
                 THEN U64Cmp(self.mantissa, other.mantissa)
                 ELSE expOrd
            ELSE IF expOrd = "Equal"
                 THEN U64Cmp(self.mantissa, other.mantissa)
                 ELSE Reverse(expOrd)
       ELSE signOrd

\* cmp that does not reverse the exponent order of negative numbers
cmp_exponent_unreversed(self, other) ==
    LET signOrd == BoolCmp(self.sign, other.sign)
        expOrd == I16Cmp(self.exponent, other.exponent)
    IN IF signOrd = "Equal"
       THEN IF self.sign
            THEN IF expOrd = "Equal"
                 THEN U64Cmp(self.mantissa, other.mantissa)
                 ELSE expOrd
            ELSE IF expOrd = "Equal"
                 THEN U64Cmp(other.mantissa, self.mantissa)
                 ELSE expOrd
       ELSE signOrd

\* cmp that picks the branch by self.sign without comparing the signs
cmp_nosign(self, other) ==
    LET expOrd == I16Cmp(self.exponent, other.exponent)
    IN IF self.sign
       THEN IF expOrd = "Equal"
            THEN U64Cmp(self.mantissa, other.mantissa)
            ELSE expOrd
       ELSE IF expOrd = "Equal"
            THEN U64Cmp(other.mantissa, self.mantissa)
            ELSE Reverse(expOrd)

\* cmp that compares the mantissa before the exponent
cmp_mantissa_first(self, other) ==
    LET signOrd == BoolCmp(self.sign, other.sign)
        expOrd == I16Cmp(self.exponent, other.exponent)
        manOrd == U64Cmp(self.mantissa, other.mantissa)
    IN IF signOrd = "Equal"
       THEN IF self.sign
            THEN IF manOrd = "Equal" THEN expOrd ELSE manOrd
            ELSE IF manOrd = "Equal" THEN Reverse(expOrd) ELSE Reverse(manOrd)
       ELSE signOrd

cmp(self, other) ==
    LET signOrd == BoolCmp(self.sign, other.sign)
        expOrd == I16Cmp(self.exponent, other.exponent)
    IN IF signOrd = "Equal"
       THEN IF self.sign
            THEN IF expOrd = "Equal"
                 THEN U64Cmp(self.mantissa, other.mantissa)
                 ELSE expOrd
            ELSE IF expOrd = "Equal"
                 THEN U64Cmp(other.mantissa, self.mantissa)
                 ELSE Reverse(expOrd)
       ELSE signOrd

partial_cmp(self, other) == Some(cmp(self, other))

\* #[derive(PartialEq, Eq)] on struct Float
FloatEq(self, other) ==
    /\ self.mantissa = other.mantissa
    /\ self.exponent = other.exponent
    /\ self.sign = other.sign

\* Option<Float> == Option<Float>, as `c == d` in test_cmp uses it
OptionEq(l, r) ==
    IF l.some /\ r.some THEN FloatEq(l.val, r.val) ELSE l.some = r.some

\* Option<Float> ordering, as `a < b` in test_cmp uses it: None sorts before
\* Some, two Some compare by Float::partial_cmp
OptionCmp(l, r) ==
    IF l.some /\ r.some THEN partial_cmp(l.val, r.val).val
    ELSE BoolCmp(l.some, r.some)

(********************************* inputs **********************************)

\* the f64 with the given 16-bit limbs, most significant first
FromLimbs(l) ==
    UNION {Shl(ToU64(l[k] % 32768) \cup (IF l[k] >= 32768 THEN {15} ELSE {}),
               16 * (4 - k)) : k \in 1..4}

\* the f64 with the given sign bit, exponent field and fraction
Pack(s, e, f) == BitOr(BitOr(IF s = 1 THEN SignBit ELSE {}, Shl(ToU64(e), 52)), f)

ExpFields == (0..ExpEdge) \cup ((2047 - ExpEdge)..2047)

\* fractions with a few low bits or a few high bits set
FracCore == (SUBSET (0..(FracBits - 1))) \cup (SUBSET ((52 - FracBits)..51))

\* fractions near zero and near all-ones
Fractions == FracCore \cup {MaskFraction \ s : s \in FracCore}

\* the literals of tests::test_f64_roundtrip and tests::test_cmp
TestValues ==
    { FromLimbs(<<16371, 44564, 31457, 18350>>),   \*  1.23
      FromLimbs(<<16402, 15728, 41943, 2621>>),    \*  4.56
      FromLimbs(<<49152, 0, 0, 0>>),               \* -2.0
      FromLimbs(<<49174, 44564, 31457, 18350>>),   \* -5.67
      FromLimbs(<<49170, 15728, 41943, 2621>>),    \* -4.56
      FromLimbs(<<16531, 19013, 27996, 64173>>),   \*  1234.5678
      FromLimbs(<<48980, 9982, 29066, 34519>>),    \* -0.00123
      FromLimbs(<<16473, 0, 0, 0>>),               \*  100.0
      FromLimbs(<<49241, 0, 0, 0>>) }              \* -100.0

\* f64 values handed to from_f64: every sign, the exponent fields at both
\* ends of the range (subnormal, smallest normal, largest normal, NaN and
\* infinity), fractions near zero and near all-ones, and the test literals
Inputs ==
    {Pack(s, e, f) : s \in {0, 1}, e \in ExpFields, f \in Fractions} \cup TestValues

\* the smaller input set of the three-value runs
InputsT ==
    {Pack(s, e, f) : s \in {0, 1}, e \in ExpFields, f \in {{}, {0}, MaskFraction}}
    \cup {FromLimbs(<<16371, 44564, 31457, 18350>>), FromLimbs(<<49152, 0, 0, 0>>)}

(********************************** state **********************************)

VARIABLES
    a, b, c,     \* the f64 values under test
    x, y, z,     \* Float::from_f64 of a, b, c (Option<Float>)
    back,        \* x.unwrap().to_f64()
    ord,         \* results of Float::cmp and == on the unwrapped values
    oord,        \* results of comparing x and y as Option<Float>
    pc

vars == <<a, b, c, x, y, z, back, ord, oord, pc>>

NotRun == [done |-> FALSE]

Init ==
    /\ a \in Inputs
    /\ b \in Inputs
    /\ c = a
    /\ x = None /\ y = None /\ z = None
    /\ back = NotRun /\ ord = NotRun /\ oord = NotRun
    /\ pc = "start"

InitT ==
    /\ a \in InputsT
    /\ b \in InputsT
    /\ c \in InputsT
    /\ x = None /\ y = None /\ z = None
    /\ back = NotRun /\ ord = NotRun /\ oord = NotRun
    /\ pc = "start"

\* let x = Float::from_f64(a); ...
Construct ==
    /\ pc = "start"
    /\ x' = from_f64(a)
    /\ y' = from_f64(b)
    /\ z' = from_f64(c)
    /\ pc' = "built"
    /\ UNCHANGED <<a, b, c, back, ord, oord>>

\* x.unwrap().to_f64()
ToF64 ==
    /\ pc = "built"
    /\ x.some
    /\ ~back.done
    /\ back' = [done |-> TRUE, bits |-> to_f64(x.val)]
    /\ UNCHANGED <<a, b, c, x, y, z, ord, oord, pc>>

\* comparisons of the unwrapped Floats
Cmp ==
    /\ pc = "built"
    /\ x.some /\ y.some /\ z.some
    /\ ~ord.done
    /\ ord' = [done |-> TRUE,
               xy |-> cmp(x.val, y.val),
               yx |-> cmp(y.val, x.val),
               yz |-> cmp(y.val, z.val),
               xz |-> cmp(x.val, z.val),
               eq |-> FloatEq(x.val, y.val)]
    /\ UNCHANGED <<a, b, c, x, y, z, back, oord, pc>>

\* comparisons of the Option<Float> results, without unwrapping
CmpOption ==
    /\ pc = "built"
    /\ ~oord.done
    /\ oord' = [done |-> TRUE, cmp |-> OptionCmp(x, y), eq |-> OptionEq(x, y)]
    /\ UNCHANGED <<a, b, c, x, y, z, back, ord, pc>>

Next == Construct \/ ToF64 \/ Cmp \/ CmpOption

Spec == Init /\ [][Next]_vars

SpecT == InitT /\ [][Next]_vars

(************************ reference notions on f64 *************************)

\* the 11-bit exponent field of an f64
ExpField(v) == ToInt({i - 52 : i \in v \cap (52..62)})

IsFinite(v) == ExpField(v) # 2047

Negative(v) == 63 \in v

\* +0.0 or -0.0
IsZero(v) == v \ {63} = {}

\* comparison of two natural numbers given by the positions of their 1 bits
BigCmp(m, n) ==
    IF m = n THEN "Equal"
    ELSE IF Max((m \ n) \cup (n \ m)) \in n THEN "Less" ELSE "Greater"

\* |v| as a multiple of 2^-1074 (IEEE 754 binary64): fraction * 2^-1074 for
\* exponent field 0, (2^52 + fraction) * 2^(e - 1075) otherwise
Magnitude(v) ==
    LET f == v \cap (0..51)
        e == ExpField(v)
    IN IF e = 0 THEN f ELSE {i + (e - 1) : i \in f \cup {52}}

\* the sign of the real number v: -1, 0 or 1
Signum(v) == IF Magnitude(v) = {} THEN 0 ELSE IF Negative(v) THEN -1 ELSE 1

\* the order of the real numbers v and w
RealCmp(v, w) ==
    IF Signum(v) # Signum(w)
    THEN IF Signum(v) < Signum(w) THEN "Less" ELSE "Greater"
    ELSE IF Signum(v) = 1 THEN BigCmp(Magnitude(v), Magnitude(w))
    ELSE IF Signum(v) = -1 THEN BigCmp(Magnitude(w), Magnitude(v))
    ELSE "Equal"

\* the IEEE 754 `<` of two finite f64: zeros of either sign are equal,
\* otherwise sign and then magnitude of the bit patterns decide
F64Lt(v, w) ==
    /\ ~(IsZero(v) /\ IsZero(w))
    /\ IF Negative(v) # Negative(w) THEN Negative(v)
       ELSE IF Negative(v) THEN BigCmp(w \ {63}, v \ {63}) = "Less"
       ELSE BigCmp(v \ {63}, w \ {63}) = "Less"

\* f64::partial_cmp of two finite values
NativeCmp(v, w) ==
    IF F64Lt(v, w) THEN "Less" ELSE IF F64Lt(w, v) THEN "Greater" ELSE "Equal"

\* f64::total_cmp: flip the low 63 bits of a negative pattern, then compare
\* as i64
TotalKey(v) == (v \ (IF 63 \in v THEN 0..62 ELSE {})) \cup ((IF 63 \in v THEN 0..62 ELSE {}) \ v)

TotalCmp(v, w) ==
    LET l == TotalKey(v)
        r == TotalKey(w)
    IN IF (63 \in l) # (63 \in r) THEN (IF 63 \in l THEN "Less" ELSE "Greater")
       ELSE BigCmp(l, r)

\* a u64 below 2^57 as <<high limb, low 26-bit limb>>
Limbs(w) == <<ToInt({i - 26 : i \in {j \in w : j >= 26}}), ToInt(w \cap (0..25))>>

RECURSIVE Pow2Mod10(_)
Pow2Mod10(i) == IF i = 0 THEN 1 ELSE (2 * Pow2Mod10(i - 1)) % 10

RECURSIVE SumMod10(_)
SumMod10(w) ==
    IF w = {} THEN 0
    ELSE LET i == Max(w) IN (Pow2Mod10(i) + SumMod10(w \ {i})) % 10

\* the last decimal digit of a u64
LastDigit(w) == SumMod10(w)

LargestSubnormal == 0..51

SmallestNormal == {52}

(********************************* claims **********************************)

\* C1: every finite f64 is accepted by from_f64, and to_f64 of the result
\* has exactly the bit pattern of the input, on both sides of the
\* subnormal/normal boundary.
C1_RoundTrip ==
    /\ (pc # "start" /\ IsFinite(a)) => x.some
    /\ back.done => back.bits = a

C1_Witness ==
    /\ back.done
    /\ a = LargestSubnormal
    /\ b = SmallestNormal
    /\ back.bits = LargestSubnormal

\* C2: from_f64 returns None exactly when the exponent field is 2047 (NaN of
\* any sign and payload, or an infinity), and Some for every other pattern;
\* to_f64 and cmp of an accepted value always yield a result.
C2_Rejection ==
    /\ pc # "start" =>
           /\ x.some <=> ExpField(a) # 2047
           /\ y.some <=> ExpField(b) # 2047
    /\ (pc = "built" /\ x.some /\ ~back.done) => ENABLED ToF64
    /\ (pc = "built" /\ x.some /\ y.some /\ z.some /\ ~ord.done) => ENABLED Cmp
    /\ back.done => back.bits \subseteq 0..63
    /\ ord.done => ord.xy \in {"Less", "Equal", "Greater"}

C2_Witness ==
    /\ pc = "built"
    /\ ~x.some
    /\ a = (52..63) \cup {0}
    /\ y.some

\* C3: cmp gives the order of the real numbers a and b, except that
\* -0.0 is Less than +0.0 and +0.0 is Greater than -0.0.
C3_RealOrder ==
    ord.done =>
        IF IsZero(a) /\ IsZero(b) /\ a # b
        THEN ord.xy = (IF Negative(a) THEN "Less" ELSE "Greater")
        ELSE ord.xy = RealCmp(a, b)

C3_Witness ==
    /\ ord.done
    /\ a = {63} \cup SmallestNormal
    /\ b = {63} \cup LargestSubnormal
    /\ ord.xy = "Less"

\* C4 as stated: cmp equals the native IEEE comparison of a and b for all
\* finite pairs, +0.0 and -0.0 comparing Equal.
C4_NativeOrder_Original ==
    ord.done => ord.xy = NativeCmp(a, b)

\* C4 amended: cmp equals the native IEEE comparison of a and b for all
\* finite pairs other than the two signed zeros, for which -0.0 is Less than
\* +0.0 and +0.0 Greater than -0.0.
C4_NativeOrder ==
    ord.done =>
        \/ ord.xy = NativeCmp(a, b) /\ ~(IsZero(a) /\ IsZero(b) /\ a # b)
        \/ a = {63} /\ b = {} /\ ord.xy = "Less"
        \/ a = {} /\ b = {63} /\ ord.xy = "Greater"

C4_Witness ==
    /\ ord.done
    /\ a = {63}
    /\ b = {}
    /\ ord.xy = "Less"
    /\ NativeCmp(a, b) = "Equal"

\* C5: on the Floats from_f64 produces, exactly one of x < y, x == y, x > y
\* holds, cmp(x, y) is the reverse of cmp(y, x), and x <= y with y <= z
\* implies x <= z.
C5_TotalOrder ==
    ord.done =>
        /\ Cardinality({k \in 1..3 : <<ord.xy = "Less", ord.eq, ord.xy = "Greater">>[k]}) = 1
        /\ ord.xy = Reverse(ord.yx)
        /\ (ord.xy # "Greater" /\ ord.yz # "Greater") => ord.xz # "Greater"

C5_Witness ==
    /\ ord.done
    /\ ord.xy = "Less" /\ ord.yz = "Less" /\ ord.xz = "Less"
    /\ ~x.val.sign /\ ~y.val.sign /\ z.val.sign
    /\ x.val.exponent > y.val.exponent

\* C6: structural equality of from_f64(a) and from_f64(b), equality of the
\* bit patterns of a and b, and cmp being Equal are equivalent.
C6_Equality ==
    ord.done =>
        /\ ord.eq <=> (a = b)
        /\ ord.eq <=> (ord.xy = "Equal")

C6_Witness ==
    /\ ord.done
    /\ ~ord.eq
    /\ a = {51}
    /\ b = {}
    /\ ord.xy = "Greater"

\* the scale of mantissa * 2^(exponent - 1075), as exponents of the primes
\* 2 and 5
BinaryScale(e) == [two |-> e - 1075, five |-> 0]

\* the scale of mantissa * 10^exponent
DecimalScale(e) == [two |-> e, five |-> e]

\* C7: for a non-zero input the mantissa has no trailing (decimal) zero and
\* |a| = mantissa * 10^exponent.  |a| is mantissa * 2^(exponent - 1075)
\* (first conjunct below), so the second holds only if both scales agree.
C7_DecimalNormalized ==
    (pc # "start" /\ x.some /\ ~IsZero(a)) =>
        /\ {i + 1 : i \in Magnitude(a)} = {i + x.val.exponent : i \in x.val.mantissa}
        /\ LastDigit(x.val.mantissa) # 0
        /\ DecimalScale(x.val.exponent) = BinaryScale(x.val.exponent)

\* C8: sign is true iff bit 63 is 0; exponent is the raw 11-bit field and
\* lies in 0..2046; for exponent 0 the mantissa is twice the fraction (even,
\* below 2^53), otherwise it is the fraction plus 2^52 (in [2^52, 2^53)).
C8_Fields ==
    (pc # "start" /\ x.some) =>
        LET f == Limbs(a \cap (0..51))
            m == Limbs(x.val.mantissa)
        IN /\ x.val.sign <=> ~Negative(a)
           /\ x.val.exponent = ExpField(a)
           /\ x.val.exponent \in 0..2046
           /\ x.val.mantissa \subseteq 0..52
           /\ IF x.val.exponent = 0
              THEN /\ m[2] = (2 * f[2]) % (2 ^ 26)
                   /\ m[1] = 2 * f[1] + (2 * f[2]) \div (2 ^ 26)
                   /\ m[2] % 2 = 0
              ELSE /\ m[2] = f[2]
                   /\ m[1] = f[1] + 2 ^ 26
                   /\ m[1] \in (2 ^ 26)..(2 ^ 27 - 1)

C8_Witness ==
    /\ pc = "built"
    /\ x.some
    /\ a = {63} \cup LargestSubnormal
    /\ x.val.exponent = 0
    /\ x.val.mantissa = 1..52
    /\ ~x.val.sign

\* C9: cmp equals the IEEE 754 totalOrder of a and b (f64::total_cmp).
C9_TotalCmp ==
    ord.done => ord.xy = TotalCmp(a, b)

C9_Witness ==
    /\ ord.done
    /\ a = LargestSubnormal
    /\ b = SmallestNormal
    /\ ord.xy = "Less"
    /\ U64Cmp(x.val.mantissa, y.val.mantissa) = "Greater"

\* C10: compared as Option<Float>, a rejected input is strictly below every
\* accepted one, all rejected inputs are equal, and two accepted inputs
\* compare as Float::cmp and == compare them.
C10_OptionOrder ==
    oord.done =>
        /\ (~IsFinite(a) /\ IsFinite(b)) => (oord.cmp = "Less" /\ ~oord.eq)
        /\ (IsFinite(a) /\ ~IsFinite(b)) => (oord.cmp = "Greater" /\ ~oord.eq)
        /\ (~IsFinite(a) /\ ~IsFinite(b)) => (oord.cmp = "Equal" /\ oord.eq)
        /\ (IsFinite(a) /\ IsFinite(b) /\ ord.done) =>
               (oord.cmp = ord.xy /\ oord.eq = ord.eq)

C10_Witness ==
    /\ oord.done
    /\ a = 52..62
    /\ b = {63} \cup (53..62) \cup (0..51)
    /\ oord.cmp = "Less"

====
